---------------------------- MODULE Spec2Model ----------------------------
(***************************************************************************)
(* Model of the schema-aware query and identifier-resolution layer of the  *)
(* DICOM Viewer backend (backend/app/main.py).                             *)
(*                                                                         *)
(* Text is modelled as a sequence of one-character strings, so that        *)
(* str.lower(), str.replace('"', '""'), string concatenation and Python's  *)
(* code-point ordering are computed rather than assumed.  Python's None    *)
(* and SQL's NULL are the same value, None, as duckdb hands NULL to Python *)
(* as None.                                                                *)
(***************************************************************************)
EXTENDS Integers, Sequences, FiniteSets, TLC

(***************************************************************************)
(* Characters and strings                                                  *)
(***************************************************************************)
UpperLetters == <<"A","B","C","D","E","F","G","H","I","J","K","L","M",
                  "N","O","P","Q","R","S","T","U","V","W","X","Y","Z">>

LowerLetters == <<"a","b","c","d","e","f","g","h","i","j","k","l","m",
                  "n","o","p","q","r","s","t","u","v","w","x","y","z">>

Digits == <<"0","1","2","3","4","5","6","7","8","9">>

IndexIn(seq, ch) == CHOOSE i \in 1..Len(seq) : seq[i] = ch

IsIn(seq, ch) == \E i \in 1..Len(seq) : seq[i] = ch

\* ord(ch) for the ASCII characters the model uses.
CharCode(ch) ==
    IF IsIn(UpperLetters, ch) THEN 64 + IndexIn(UpperLetters, ch)
    ELSE IF IsIn(LowerLetters, ch) THEN 96 + IndexIn(LowerLetters, ch)
    ELSE IF IsIn(Digits, ch) THEN 47 + IndexIn(Digits, ch)
    ELSE IF ch = " " THEN 32
    ELSE IF ch = "\"" THEN 34
    ELSE IF ch = "-" THEN 45
    ELSE IF ch = "." THEN 46
    ELSE IF ch = "/" THEN 47
    ELSE IF ch = "=" THEN 61
    ELSE 95   \* "_"

\* str.lower() on one ASCII character.
LowerChar(ch) ==
    IF IsIn(UpperLetters, ch) THEN LowerLetters[IndexIn(UpperLetters, ch)] ELSE ch

\* str.lower()
Lower(s) == [i \in 1..Len(s) |-> LowerChar(s[i])]

\* Python's str < str: lexicographic by code point, a proper prefix first.
RECURSIVE StrLess(_, _)
StrLess(a, b) ==
    IF b = <<>> THEN FALSE
    ELSE IF a = <<>> THEN TRUE
    ELSE IF a[1] = b[1] THEN StrLess(Tail(a), Tail(b))
    ELSE CharCode(a[1]) < CharCode(b[1])

\* Python's None, and SQL's NULL as duckdb returns it.  It is a sequence
\* whose one element is no single character, so it equals no string.
None == <<"<None>">>

\* The elements of a sequence.
Range(seq) == {seq[i] : i \in 1..Len(seq)}

\* list.sort() / ORDER BY ... ASC on a set of distinct strings.
RECURSIVE SortStrings(_)
SortStrings(S) ==
    IF S = {} THEN <<>>
    ELSE LET m == CHOOSE x \in S : \A y \in S \ {x} : StrLess(x, y)
         IN  <<m>> \o SortStrings(S \ {m})

\* min() of a non-empty set of strings.
MinString(S) == CHOOSE x \in S : \A y \in S \ {x} : StrLess(x, y)

\* [x for x in seq if x in S]
RECURSIVE FilterSeq(_, _)
FilterSeq(seq, S) ==
    IF seq = <<>> THEN <<>>
    ELSE (IF Head(seq) \in S THEN <<Head(seq)>> ELSE <<>>) \o FilterSeq(Tail(seq), S)

\* All duplicate-free sequences of exactly n elements of S.
RECURSIVE Arrangements(_, _)
Arrangements(S, n) ==
    IF n = 0 THEN {<<>>}
    ELSE UNION {{<<x>> \o t : t \in Arrangements(S \ {x}, n - 1)} : x \in S}

Min(a, b) == IF a < b THEN a ELSE b

(***************************************************************************)
(* String literals of the program                                          *)
(***************************************************************************)
s_clean_report_text == <<"c","l","e","a","n","_","r","e","p","o","r","t","_","t","e","x","t">>

s_studyID == <<"s","t","u","d","y","I","D">>

s_age == <<"a","g","e">>

s_views == <<"v","i","e","w","s">>

s_study_date == <<"s","t","u","d","y","_","d","a","t","e">>

s_regex_labels == <<"r","e","g","e","x","_","l","a","b","e","l","s">>

s_report_text == <<"r","e","p","o","r","t","_","t","e","x","t">>

s_report_path == <<"r","e","p","o","r","t","_","p","a","t","h">>

s_llm_labels == <<"l","l","m","_","l","a","b","e","l","s">>

s_StudyInstanceUID == <<"S","t","u","d","y","I","n","s","t","a","n","c","e","U","I","D">>

s_study_id == <<"s","t","u","d","y","_","i","d">>

s_anon_study_uid == <<"a","n","o","n","_","s","t","u","d","y","_","u","i","d">>

s_StudyUID == <<"S","t","u","d","y","U","I","D">>

s_PHI == <<"P","H","I">>

s_original_study_uid == <<"o","r","i","g","i","n","a","l","_","s","t","u","d","y","_","u","i","d">>

s_real_study_uid == <<"r","e","a","l","_","s","t","u","d","y","_","u","i","d">>

s_ANON == <<"A","N","O","N">>

s_AnonymizedStudyInstanceUID == <<"A","n","o","n","y","m","i","z","e","d","S","t","u","d","y","I","n","s","t","a","n","c","e","U","I","D">>

s_anonStudyInstanceUID == <<"a","n","o","n","S","t","u","d","y","I","n","s","t","a","n","c","e","U","I","D">>

s_anon_StudyInstanceUID == <<"a","n","o","n","_","S","t","u","d","y","I","n","s","t","a","n","c","e","U","I","D">>

s_anon == <<"a","n","o","n">>

s_file_path == <<"f","i","l","e","_","p","a","t","h">>

s_dicom_path == <<"d","i","c","o","m","_","p","a","t","h">>

s_path == <<"p","a","t","h">>

s_SOPInstanceUID == <<"S","O","P","I","n","s","t","a","n","c","e","U","I","D">>

s_SeriesInstanceUID == <<"S","e","r","i","e","s","I","n","s","t","a","n","c","e","U","I","D">>

s_PatientID == <<"P","a","t","i","e","n","t","I","D">>

s_Modality == <<"M","o","d","a","l","i","t","y">>

s_BodyPartExamined == <<"B","o","d","y","P","a","r","t","E","x","a","m","i","n","e","d">>

s_AcquisitionDate == <<"A","c","q","u","i","s","i","t","i","o","n","D","a","t","e">>

s_AcquisitionTime == <<"A","c","q","u","i","s","i","t","i","o","n","T","i","m","e">>


\* The filesystem roots probed by get_dicom_by_sop, in order.
DicomRoots == << <<"/","a","p","p","/","d","a","t","a">>,
                 <<"/","d","a","t","a","_","i","n">>,
                 <<"/","d","a","t","a">> >>

s_dcm == <<".","d","c","m">>

DQ == <<"\"">>

(***************************************************************************)
(* Pure helpers of main.py                                                 *)
(***************************************************************************)
\* name.replace('"', '""')
RECURSIVE DoubleQuotes(_)
DoubleQuotes(name) ==
    IF name = <<>> THEN <<>>
    ELSE (IF Head(name) = "\"" THEN <<"\"", "\"">> ELSE <<Head(name)>>)
         \o DoubleQuotes(Tail(name))

QuoteIdentNoEscape(name) == DQ \o name \o DQ

\* _quote_ident
QuoteIdent(name) == DQ \o DoubleQuotes(name) \o DQ

\* f'"{c}"': a schema-derived name wrapped in quotes, nothing escaped.
Quoted(name) == DQ \o name \o DQ

\* meta_cols of _finding_columns
meta_cols ==
    {s_clean_report_text, s_studyID, s_age, s_views, s_study_date,
     s_regex_labels, s_report_text, s_report_path, s_llm_labels}

\* [c for c in cols if c not in S]
RECURSIVE Excluding(_, _)
Excluding(cols, S) ==
    IF cols = <<>> THEN <<>>
    ELSE (IF Head(cols) \notin S THEN <<Head(cols)>> ELSE <<>>) \o Excluding(Tail(cols), S)

FindingColumnsKeepAll(cols) == cols

\* _finding_columns, given the names PRAGMA table_info('reports') returned.
FindingColumns(cols) == Excluding(cols, meta_cols)

\* list.sort(): insertion into a sorted list, duplicates kept.
RECURSIVE InsertSorted(_, _)
InsertSorted(x, sorted) ==
    IF sorted = <<>> THEN <<x>>
    ELSE IF StrLess(Head(sorted), x) THEN <<Head(sorted)>> \o InsertSorted(x, Tail(sorted))
    ELSE <<x>> \o sorted

RECURSIVE SortList(_)
SortList(l) == IF l = <<>> THEN <<>> ELSE InsertSorted(Head(l), SortList(Tail(l)))

\* The first element of cands that is in S, else None (for c in cands: if c in S).
RECURSIVE FirstIn(_, _)
FirstIn(cands, S) ==
    IF cands = <<>> THEN None
    ELSE IF Head(cands) \in S THEN Head(cands)
    ELSE FirstIn(Tail(cands), S)

\* candidates of _detect_study_uid_column
StudyUidCandidates ==
    <<s_StudyInstanceUID, s_studyID, s_study_id, s_anon_study_uid, s_StudyUID>>

RECURSIVE LastIn(_, _)
LastIn(cands, S) ==
    IF cands = <<>> THEN None
    ELSE LET later == LastIn(Tail(cands), S)
         IN  IF later # None THEN later
             ELSE IF Head(cands) \in S THEN Head(cands)
             ELSE None

DetectLastCandidate(available_cols) == LastIn(StudyUidCandidates, available_cols)

\* _detect_study_uid_column
DetectStudyUidColumn(available_cols) == FirstIn(StudyUidCandidates, available_cols)

\* The dicts {c.lower(): c for c in available_cols} can be: one entry per
\* lower-cased name; when several columns share it, the one the set's
\* iteration yields last, which Python leaves unspecified.
LowerMaps(available_cols) ==
    {m \in [{Lower(c) : c \in available_cols} -> available_cols] :
        \A k \in DOMAIN m : Lower(m[k]) = k}

RECURSIVE FindColExact(_, _)
FindColExact(lower_map, candidates) ==
    IF candidates = <<>> THEN None
    ELSE IF \E k \in DOMAIN lower_map : lower_map[k] = Head(candidates)
         THEN Head(candidates)
    ELSE FindColExact(lower_map, Tail(candidates))

\* _find_col, given the lower_map it built.
RECURSIVE FindCol(_, _)
FindCol(lower_map, candidates) ==
    IF candidates = <<>> THEN None
    ELSE IF Lower(Head(candidates)) \in DOMAIN lower_map
         THEN lower_map[Lower(Head(candidates))]
    ELSE FindCol(lower_map, Tail(candidates))

\* Python's `a or b` on optional strings: a unless it is None or "".
OrElse(a, b) == IF a = None \/ a = <<>> THEN b ELSE a

\* The candidate lists of _map_real_to_anon_study_uid.
RealPreferred == <<s_PHI>>

RealFallback == <<s_StudyInstanceUID, s_studyID, s_original_study_uid, s_real_study_uid>>

AnonPreferred == <<s_ANON>>

AnonFallback ==
    <<s_anon_study_uid, s_AnonymizedStudyInstanceUID, s_anonStudyInstanceUID,
      s_anon_StudyInstanceUID>>

\* The candidate list of get_study_dicoms for the anonymized filter column.
AnonFilterCandidates ==
    <<s_ANON, s_anon, s_anon_study_uid, s_AnonymizedStudyInstanceUID,
      s_anonStudyInstanceUID, s_anon_StudyInstanceUID>>

\* The path-like columns, in the order get_dicom_by_sop and list_dicom_studies try them.
FileColCandidates == <<s_file_path, s_dicom_path, s_path>>

\* preferred of get_study_dicoms
PreferredCols ==
    <<s_StudyInstanceUID, s_SeriesInstanceUID, s_SOPInstanceUID, s_PatientID,
      s_Modality, s_BodyPartExamined, s_AcquisitionDate, s_AcquisitionTime,
      s_dicom_path, s_path, s_file_path>>

(***************************************************************************)
(* Bounds and input universes                                              *)
(***************************************************************************)
\* Most rows the reports table holds.
MaxReportRows == 3

\* Most rows a Parquet source holds.
MaxParquetRows == 2

\* Largest page number requested.
MaxPage == 3

\* Largest limit requested from list_dicom_studies.
MaxLimit == 2

\* Rows of a Parquet source where the whole service is explored at once.
MaxServiceRows == 1

\* page_size: Query(ge=1, le=100)
MaxPageSize == 100

\* LIMIT 2000 of get_study_dicoms
StudyRowLimit == 2000

\* Finding columns and other column names callers and tables use.
s_Edema == <<"E","d","e","m","a">>

s_edema == <<"e","d","e","m","a">>

s_Nodule == <<"N","o","d","u","l","e">>

\* A column name with an embedded double quote: a"b
s_odd == <<"a","\"","b">>

\* A filter column crafted to break out of the quotes: x" OR "1"="1
s_inject == <<"x","\""," ","O","R"," ","\"","1","\"","=","\"","1">>

s_studyid == <<"s","t","u","d","y","i","d">>

s_phi == <<"p","h","i">>

\* Cell values.
v_T == <<"T">>

v_1 == <<"1">>

v_2 == <<"2">>

v_a == <<"a">>

v_b == <<"b">>

v_7 == <<"7">>

\* The columns a reports table of the model may have.
ReportColumns == {s_studyID, s_clean_report_text, s_age, s_Edema, s_Nodule, s_odd}

\* The values a cell of the reports table takes, by column.
ReportValues ==
    [c \in ReportColumns |->
        IF c = s_studyID THEN {None, v_1, v_2}
        ELSE IF c = s_clean_report_text THEN {None, v_a, v_b}
        ELSE IF c = s_age THEN {v_7}
        ELSE {None, v_T}]

\* All rows over the columns cols: one value of values[c] per column c.
RECURSIVE RowsOver(_, _)
RowsOver(cols, values) ==
    IF cols = {} THEN {<<>>}
    ELSE LET c == CHOOSE x \in cols : TRUE
         IN  {(c :> v) @@ r : v \in values[c], r \in RowsOver(cols \ {c}, values)}

\* All sets of at most n elements of S.
RECURSIVE UpTo(_, _)
UpTo(S, n) ==
    IF n = 0 THEN {{}}
    ELSE LET smaller == UpTo(S, n - 1)
         IN  smaller \cup {T \cup {x} : T \in smaller, x \in S}

\* All orderings of the set S.
Orderings(S) == Arrangements(S, Cardinality(S))

\* The schema whose rows are varied.
BaseReportSchema == <<s_studyID, s_clean_report_text, s_Edema>>

\* Schemas of the reports table in every column order.
OrderedReportSchemas ==
    Orderings({s_studyID, s_clean_report_text})
    \cup Orderings({s_studyID, s_clean_report_text, s_Edema})
    \cup Orderings({s_studyID, s_clean_report_text, s_odd, s_Edema})
    \cup {<<s_studyID, s_age, s_clean_report_text, s_Nodule, s_Edema>>}

\* One row with every cell set.
FullRow(cols) ==
    [c \in cols |-> IF c = s_studyID THEN v_1
                    ELSE IF c = s_clean_report_text THEN v_a
                    ELSE IF c = s_age THEN v_7 ELSE v_T]

\* The reports tables of the model: <<column names in order, rows>>.
SchemaReportTables ==
    UNION {{<<cols, rows>> : rows \in {{}, {FullRow(Range(cols))}}} :
              cols \in OrderedReportSchemas}

ReportTables ==
    SchemaReportTables
    \cup {<<BaseReportSchema, rows>> :
            rows \in UpTo(RowsOver(Range(BaseReportSchema), ReportValues), MaxReportRows)}

\* Filter columns and values callers send (None: the parameter is absent).
HallazgoInputs == {None, s_Edema, s_edema, s_Nodule, s_odd, s_studyID, s_inject}

ValueInputs == {None, v_T}

PageInputs == 1..MaxPage

PageSizeInputs == {1, 2, MaxPageSize, MaxPageSize + 1}

\* Identifiers and paths stored in the Parquet sources and sent by callers.
v_R1 == <<"R","1">>

v_R2 == <<"R","2">>

v_A1 == <<"A","1">>

v_A2 == <<"A","2">>

v_X == <<"X">>

v_Y == <<"Y">>

v_CT == <<"C","T">>

v_P1 == <<"/","p","/","1">>

v_P2 == <<"/","p","/","2">>

\* The columns a Parquet source of the model may have.
ParquetColumns ==
    {s_StudyInstanceUID, s_studyID, s_studyid, s_anon_study_uid, s_PHI, s_phi,
     s_real_study_uid, s_ANON, s_anon, s_AnonymizedStudyInstanceUID,
     s_SOPInstanceUID, s_file_path, s_dicom_path, s_path, s_Modality}

\* The values a cell of a Parquet source takes, by column.
ParquetValues ==
    [c \in ParquetColumns |->
        IF c \in {s_StudyInstanceUID, s_studyID, s_studyid, s_PHI, s_phi, s_real_study_uid}
            THEN {v_R1, v_A1}
        ELSE IF c \in {s_ANON, s_anon} THEN {v_A1, v_A2, None, <<>>}
        ELSE IF c \in {s_anon_study_uid, s_AnonymizedStudyInstanceUID} THEN {v_A1, v_A2}
        ELSE IF c = s_SOPInstanceUID THEN {v_X, v_Y}
        ELSE IF c \in {s_file_path, s_dicom_path, s_path} THEN {v_P1, v_P2, None}
        ELSE {v_CT}]

\* DICOM_METADATA_PARQUET_PATH, by default METADATA_PARQUET_PATH's default.
DefaultParquetPath ==
    <<"/","d","a","t","a","/","a","n","o","n",".","p","a","r","q","u","e","t">>

\* A MAPPING_PARQUET_PATH set to a file of its own.
OwnMappingPath ==
    <<"/","d","a","t","a","/","m","a","p",".","p","a","r","q","u","e","t">>

\* A Parquet file at path: whether the path exists, whether duckdb can read
\* it, its column names and its rows.
Parquet(path, cols, rows) ==
    [path |-> path, exists |-> TRUE, readable |-> TRUE, cols |-> cols, rows |-> rows]

MissingParquet(path) ==
    [path |-> path, exists |-> FALSE, readable |-> FALSE, cols |-> {}, rows |-> {}]

CorruptParquet(path) ==
    [path |-> path, exists |-> TRUE, readable |-> FALSE, cols |-> {}, rows |-> {}]

\* The Parquet files at path with one of the schemas and at most n rows,
\* and the missing and the unreadable file.
ParquetsUpTo(path, schemas, n) ==
    {MissingParquet(path), CorruptParquet(path)}
    \cup UNION {{Parquet(path, cols, rows) : rows \in UpTo(RowsOver(cols, ParquetValues), n)} :
                cols \in schemas}

ParquetsOver(path, schemas) == ParquetsUpTo(path, schemas, MaxParquetRows)

\* Schemas that exercise file resolution.
FileSchemas ==
    {{s_SOPInstanceUID, s_file_path},
     {s_SOPInstanceUID, s_dicom_path, s_path},
     {s_file_path},
     {s_SOPInstanceUID, s_Modality}}

\* Schemas that exercise study-identifier detection and mapping in one file.
StudySchemas ==
    {{},
     {s_Modality},
     {s_studyID, s_SOPInstanceUID},
     {s_StudyInstanceUID, s_studyID},
     {s_studyid, s_SOPInstanceUID},
     {s_StudyInstanceUID, s_ANON},
     {s_StudyInstanceUID, s_PHI, s_ANON},
     {s_StudyInstanceUID, s_SOPInstanceUID, s_file_path},
     {s_anon_study_uid, s_Modality}}

\* Schemas of a mapping file of its own.
MappingSchemas ==
    {{s_PHI, s_ANON},
     {s_phi, s_anon},
     {s_StudyInstanceUID, s_anon_study_uid},
     {s_PHI},
     {s_ANON},
     {s_PHI, s_StudyInstanceUID, s_ANON},
     {s_real_study_uid, s_studyID, s_AnonymizedStudyInstanceUID},
     {s_PHI, s_phi, s_ANON},
     {s_Modality}}

\* The metadata files a mapping file of its own is combined with.
MappedMetadata ==
    {Parquet(DefaultParquetPath, {s_StudyInstanceUID, s_SOPInstanceUID},
             {(s_StudyInstanceUID :> v_R1) @@ (s_SOPInstanceUID :> v_X),
              (s_StudyInstanceUID :> v_A1) @@ (s_SOPInstanceUID :> v_Y)}),
     Parquet(DefaultParquetPath, {s_StudyInstanceUID, s_anon, s_SOPInstanceUID},
             {(s_StudyInstanceUID :> v_R1) @@ (s_anon :> v_A1) @@ (s_SOPInstanceUID :> v_X),
              (s_StudyInstanceUID :> v_R1) @@ (s_anon :> v_A2) @@ (s_SOPInstanceUID :> v_Y)})}

\* os.path.join(root, filename)
PathJoin(root, filename) == root \o <<"/">> \o filename

\* The DICOM files that may exist on disk.
DicomFiles ==
    {PathJoin(DicomRoots[i], v_X \o s_dcm) : i \in 1..Len(DicomRoots)} \cup {v_P1}

SopInputs == {v_X, v_Y}

StudyIdInputs == {v_R1, v_R2, v_A1}

LimitInputs == 1..MaxLimit

(***************************************************************************)
(* State                                                                   *)
(***************************************************************************)
VARIABLES
    reportCols,   \* column names of table reports, in table order
    reportRows,   \* its rows: functions from column name to value
    files,        \* the paths that exist on disk, besides the Parquet sources
    metadata,     \* the Parquet at DICOM_METADATA_PARQUET_PATH
    mapping,      \* the Parquet at MAPPING_PARQUET_PATH
    op,           \* the handler that ran last, "idle" between requests
    req,          \* its parameters
    resp,         \* its response
    locals,       \* the handler's local variables when it returned
    queries       \* the queries it executed, in order

vars == <<reportCols, reportRows, files, metadata, mapping, op, req, resp, locals, queries>>

env == <<reportCols, reportRows, files, metadata, mapping>>

NoRecord == [x \in {} |-> None]

\* A query as con.execute receives it: the statement with {} where the
\* f-string put a name, the names put there, and the bound parameters.
Query(source, sql, idents, params) ==
    [source |-> source, sql |-> sql, idents |-> idents, params |-> params]

\* HTTPException(status_code, detail): detail is "" where the model does
\* not tell messages apart.
HttpErrorDetail(status, detail) == [status |-> status, body |-> None, detail |-> detail]

HttpError(status) == HttpErrorDetail(status, "")

Ok(body) == [status |-> 200, body |-> body, detail |-> ""]

(***************************************************************************)
(* The reports table                                                       *)
(***************************************************************************)
\* PRAGMA table_info('reports'): the column names, in table order.
TableInfoQuery == Query("reports", "PRAGMA table_info('reports')", <<>>, <<>>)

\* WHERE studyID IS NOT NULL [AND "hallazgo" = ?]; hallazgo = None: no filter.
\* A comparison with NULL is not true.
ReportRowsWhere(hallazgo, value) ==
    {r \in reportRows :
        /\ r[s_studyID] # None
        /\ hallazgo # None => (r[hallazgo] # None /\ r[hallazgo] = value)}

\* MIN(clean_report_text) over a group: NULLs skipped, NULL when all are.
MinText(group) ==
    LET texts == {r[s_clean_report_text] : r \in group} \ {None}
    IN  IF texts = {} THEN None ELSE MinString(texts)

\* GROUP BY studyID ORDER BY studyID: one entry per studyID, ascending.
GroupedListing(rows) ==
    LET ids == SortStrings({r[s_studyID] : r \in rows})
    IN  [i \in 1..Len(ids) |->
            [studyId |-> ids[i],
             cleanReportText |-> MinText({r \in rows : r[s_studyID] = ids[i]})]]

\* LIMIT limit OFFSET offset
LimitOffset(seq, limit, offset) ==
    IF offset >= Len(seq) THEN <<>>
    ELSE SubSeq(seq, offset + 1, Min(Len(seq), offset + limit))

PageOffsetOneBased(page, page_size) == page * page_size

\* (page - 1) * page_size
PageOffset(page, page_size) == (page - 1) * page_size

\* The rows of the listing query of get_studies.
ListQueryRows(hallazgo, value, page_size, offset) ==
    LimitOffset(GroupedListing(ReportRowsWhere(hallazgo, value)), page_size, offset)

CountQueryAllRows(hallazgo, value) ==
    Cardinality({r \in reportRows : hallazgo # None => r[hallazgo] = value})

\* SELECT COUNT(DISTINCT studyID) FROM reports WHERE ...
CountQueryResult(hallazgo, value) ==
    Cardinality({r[s_studyID] : r \in ReportRowsWhere(hallazgo, value)})

\* The name a double-quoted identifier in a statement denotes: the text
\* between the enclosing quotes with each "" read as one quote; None when
\* the text is not one well-formed quoted identifier.
RECURSIVE Undouble(_)
Undouble(s) ==
    IF s = <<>> THEN <<>>
    ELSE IF Head(s) # "\"" THEN
        LET rest == Undouble(Tail(s))
        IN  IF rest = None THEN None ELSE <<Head(s)>> \o rest
    ELSE IF Len(s) >= 2 /\ s[2] = "\"" THEN
        LET rest == Undouble(Tail(Tail(s)))
        IN  IF rest = None THEN None ELSE <<"\"">> \o rest
    ELSE None

ParseQuotedIdent(text) ==
    IF Len(text) < 2 \/ text[1] # "\"" \/ text[Len(text)] # "\"" THEN None
    ELSE Undouble(SubSeq(text, 2, Len(text) - 1))

\* The column of cols an identifier binds to: the column of that very name,
\* else one that differs in letter case only (duckdb matches identifiers
\* without regard to case), None when there is none: a binder error.
BindColumn(name, cols) ==
    IF name \in cols THEN name
    ELSE IF name # None /\ \E c \in cols : Lower(c) = Lower(name)
    THEN CHOOSE c \in cols : Lower(c) = Lower(name)
    ELSE None

(***************************************************************************)
(* Handlers over the reports table                                         *)
(***************************************************************************)
Idle == op = "idle"

\* The handler returned and the response went out: nothing of the request
\* is kept (section 5: stateless, independent requests).
Respond ==
    /\ op # "idle"
    /\ op' = "idle"
    /\ req' = NoRecord
    /\ resp' = NoRecord
    /\ locals' = NoRecord
    /\ queries' = <<>>
    /\ UNCHANGED env

GetFindingsUnsorted == FindingColumns(reportCols)

\* The body of get_findings.
FindingsBody == SortList(FindingColumns(reportCols))

\* GET /findings
GetFindings ==
    /\ Idle
    /\ op' = "get_findings"
    /\ req' = NoRecord
    /\ resp' = Ok(FindingsBody)
    /\ locals' = NoRecord
    /\ queries' = <<TableInfoQuery>>
    /\ UNCHANGED env

\* valid_cols = set(_finding_columns())
ValidCols == Range(FindingColumns(reportCols))

AllowAnyColumn(hallazgo) == TRUE

\* hallazgo in valid_cols
IsValidColumn(hallazgo) == hallazgo \in ValidCols

FilterAppliesWithColumnOnly(hallazgo, value) == hallazgo # None

\* hallazgo is not None and value is not None
FilterApplies(hallazgo, value) == hallazgo # None /\ value # None

\* Query(ge=1) on page, Query(ge=1, le=100) on page_size
PagingValid(page, page_size) == page >= 1 /\ page_size >= 1 /\ page_size <= MaxPageSize

ListSqlFiltered ==
    "SELECT studyID AS studyId, MIN(clean_report_text) AS cleanReportText FROM reports WHERE studyID IS NOT NULL AND {} = ? GROUP BY studyID ORDER BY studyID LIMIT ? OFFSET ?"

ListSqlUnfiltered ==
    "SELECT studyID AS studyId, MIN(clean_report_text) AS cleanReportText FROM reports WHERE studyID IS NOT NULL GROUP BY studyID ORDER BY studyID LIMIT ? OFFSET ?"

CountSqlFiltered ==
    "SELECT COUNT(DISTINCT studyID) FROM reports WHERE studyID IS NOT NULL AND {} = ?"

CountSqlUnfiltered ==
    "SELECT COUNT(DISTINCT studyID) FROM reports WHERE studyID IS NOT NULL"

\* GET /studies
GetStudies(hallazgo, value, page, page_size) ==
    /\ Idle
    /\ op' = "get_studies"
    /\ req' = [hallazgo |-> hallazgo, value |-> value, page |-> page, page_size |-> page_size]
    /\ locals' = NoRecord
    /\ UNCHANGED env
    /\ IF ~PagingValid(page, page_size) THEN
          \* rejected by the declared parameter constraints; the handler does not run
          /\ resp' = HttpError(422)
          /\ queries' = <<>>
       ELSE IF FilterApplies(hallazgo, value) THEN
          IF ~IsValidColumn(hallazgo) THEN
             /\ resp' = HttpError(400)
             /\ queries' = <<TableInfoQuery>>
          ELSE
             LET ident == QuoteIdent(hallazgo)
                 col == BindColumn(ParseQuotedIdent(ident), Range(reportCols))
                 offset == PageOffset(page, page_size)
             IN  /\ queries' = <<TableInfoQuery,
                                 Query("reports", ListSqlFiltered, <<ident>>,
                                       <<value, page_size, offset>>)>>
                 /\ resp' = IF col = None THEN HttpError(500)
                            ELSE Ok(ListQueryRows(col, value, page_size, offset))
       ELSE
          LET offset == PageOffset(page, page_size)
          IN  /\ queries' = <<Query("reports", ListSqlUnfiltered, <<>>, <<page_size, offset>>)>>
              /\ resp' = Ok(ListQueryRows(None, None, page_size, offset))

\* GET /studies/count
GetStudiesCount(hallazgo, value) ==
    /\ Idle
    /\ op' = "get_studies_count"
    /\ req' = [hallazgo |-> hallazgo, value |-> value]
    /\ locals' = NoRecord
    /\ UNCHANGED env
    /\ IF FilterApplies(hallazgo, value) THEN
          IF ~IsValidColumn(hallazgo) THEN
             /\ resp' = HttpError(400)
             /\ queries' = <<TableInfoQuery>>
          ELSE
             LET ident == QuoteIdent(hallazgo)
                 col == BindColumn(ParseQuotedIdent(ident), Range(reportCols))
             IN  /\ queries' = <<TableInfoQuery,
                                 Query("reports", CountSqlFiltered, <<ident>>, <<value>>)>>
                 /\ resp' = IF col = None THEN HttpError(500)
                            ELSE Ok([count |-> CountQueryResult(col, value)])
       ELSE
          /\ queries' = <<Query("reports", CountSqlUnfiltered, <<>>, <<>>)>>
          /\ resp' = Ok([count |-> CountQueryResult(None, None)])

(***************************************************************************)
(* Specification of the report endpoints                                   *)
(***************************************************************************)
NoParquet == MissingParquet(DefaultParquetPath)

IdleInit ==
    /\ op = "idle"
    /\ req = NoRecord
    /\ resp = NoRecord
    /\ locals = NoRecord
    /\ queries = <<>>

InitStudies ==
    /\ \E t \in ReportTables : reportCols = t[1] /\ reportRows = t[2]
    /\ files = {}
    /\ metadata = NoParquet
    /\ mapping = NoParquet
    /\ IdleInit

NextStudies ==
    \/ GetFindings
    \/ \E h \in HallazgoInputs, v \in ValueInputs, p \in PageInputs, k \in PageSizeInputs :
          GetStudies(h, v, p, k)
    \/ \E h \in HallazgoInputs, v \in ValueInputs : GetStudiesCount(h, v)
    \/ Respond

SpecStudies == InitStudies /\ [][NextStudies]_vars

(***************************************************************************)
(* The Parquet sources                                                     *)
(***************************************************************************)
DescribeSql == "DESCRIBE SELECT * FROM read_parquet(?) LIMIT 0"

\* _query_parquet("DESCRIBE SELECT * FROM read_parquet(?) LIMIT 0", [path])
DescribeQuery(source, src) == Query(source, DescribeSql, <<>>, <<src.path>>)

\* The rows of src whose column col equals value; a comparison with NULL
\* is not true.
RowsWhereEquals(src, col, value) ==
    {r \in src.rows : r[col] # None /\ r[col] = value}

\* What a query without ORDER BY may return under LIMIT n: any n of the
\* rows (all of them when there are fewer), in any order.
LimitAnyOrder(rows, n) == Arrangements(rows, Min(n, Cardinality(rows)))

\* The row restricted to the selected columns, as the dict _query_parquet builds.
Project(r, cols) == [c \in cols |-> r[c]]

MapSql == "SELECT {} AS anon FROM read_parquet(?) WHERE {} = ? LIMIT 1"

NoMapping(qs) ==
    [anon_uid |-> None, real_col |-> None, anon_col |-> None, queries |-> qs]

\* _map_real_to_anon_study_uid: the results it can return, each with the
\* columns it chose and the queries it ran.
MapRealToAnon(real_uid) ==
    IF ~mapping.exists THEN {NoMapping(<<>>)}
    ELSE IF ~mapping.readable THEN {NoMapping(<<DescribeQuery("mapping", mapping)>>)}
    ELSE UNION {
        LET real_col == OrElse(FindCol(lower_map, RealPreferred),
                               FindCol(lower_map, RealFallback))
            anon_col == OrElse(FindCol(lower_map, AnonPreferred),
                               FindCol(lower_map, AnonFallback))
            describe == DescribeQuery("mapping", mapping)
        IN  IF real_col \in {None, <<>>} \/ anon_col \in {None, <<>>}
            THEN {[anon_uid |-> None, real_col |-> real_col, anon_col |-> anon_col,
                   queries |-> <<describe>>]}
            ELSE LET lookup == Query("mapping", MapSql, <<Quoted(anon_col), Quoted(real_col)>>,
                                     <<mapping.path, real_uid>>)
                     real_bound == BindColumn(ParseQuotedIdent(Quoted(real_col)), mapping.cols)
                     anon_bound == BindColumn(ParseQuotedIdent(Quoted(anon_col)), mapping.cols)
                     matches == IF real_bound = None \/ anon_bound = None THEN {}
                                ELSE RowsWhereEquals(mapping, real_bound, real_uid)
                 IN  {[anon_uid |-> IF rows = <<>> THEN None ELSE rows[1][anon_bound],
                       real_col |-> real_col, anon_col |-> anon_col,
                       queries |-> <<describe, lookup>>] :
                        rows \in LimitAnyOrder(matches, 1)}
        : lower_map \in LowerMaps(mapping.cols)}

(***************************************************************************)
(* Handlers over the Parquet sources and the filesystem                    *)
(***************************************************************************)
PathSql == "SELECT {} FROM read_parquet(?) WHERE \"SOPInstanceUID\" = ? LIMIT 1"

\* The roots, in probing order, under which {sop}.dcm exists.
RootHits(sop) ==
    SelectSeq(DicomRoots, LAMBDA root : PathJoin(root, sop \o s_dcm) \in files)

NotFound == HttpError(404)

FileResponse(path) == Ok([path |-> path])

LastRootHit(sop) == PathJoin(RootHits(sop)[Len(RootHits(sop))], sop \o s_dcm)

\* The path the direct lookup returns when some root has the file.
FirstRootHit(sop) == PathJoin(Head(RootHits(sop)), sop \o s_dcm)

\* GET /dicoms/{sop_instance_uid}
GetDicomBySop(sop_instance_uid) ==
    /\ Idle
    /\ op' = "get_dicom_by_sop"
    /\ req' = [sop_instance_uid |-> sop_instance_uid]
    /\ UNCHANGED env
    /\ IF RootHits(sop_instance_uid) # <<>> THEN
          /\ resp' = FileResponse(FirstRootHit(sop_instance_uid))
          /\ queries' = <<>>
          /\ locals' = [strategy |-> "direct"]
       ELSE IF ~metadata.exists THEN
          /\ resp' = NotFound
          /\ queries' = <<>>
          /\ locals' = [strategy |-> "none"]
       ELSE IF ~metadata.readable THEN
          \* the DESCRIBE raises; the exception is ignored
          /\ resp' = NotFound
          /\ queries' = <<DescribeQuery("metadata", metadata)>>
          /\ locals' = [strategy |-> "parquet"]
       ELSE
          LET file_cols == FilterSeq(FileColCandidates, metadata.cols)
              describe == DescribeQuery("metadata", metadata)
          IN  IF file_cols = <<>> THEN
                 /\ resp' = NotFound
                 /\ queries' = <<describe>>
                 /\ locals' = [strategy |-> "parquet"]
              ELSE
                 LET file_col == file_cols[1]
                     sop_bound == BindColumn(s_SOPInstanceUID, metadata.cols)
                     matches == IF sop_bound = None THEN {}
                                ELSE RowsWhereEquals(metadata, sop_bound, sop_instance_uid)
                 IN  /\ queries' = <<describe,
                                     Query("metadata", PathSql, <<Quoted(file_col)>>,
                                           <<metadata.path, sop_instance_uid>>)>>
                     /\ locals' = [strategy |-> "parquet", file_col |-> file_col]
                     /\ \E rows \in LimitAnyOrder(matches, 1) :
                           resp' = IF rows # <<>> /\ rows[1][file_col] # None
                                      /\ rows[1][file_col] \in files
                                   THEN FileResponse(rows[1][file_col])
                                   ELSE NotFound

\* The statement of get_study_dicoms; {...} stands for the selected names.
StudySql(select_cols) ==
    IF select_cols = <<>>
    THEN "SELECT * FROM read_parquet(?) WHERE {} = ? LIMIT 2000"
    ELSE "SELECT {...} FROM read_parquet(?) WHERE {} = ? LIMIT 2000"

NoUidColumnDetail == "No se encontro columna de Study UID en el parquet."

\* The body of get_study_dicoms.
StudyDicoms(study_id) ==
    /\ op' = "get_study_dicoms"
    /\ req' = [study_id |-> study_id]
    /\ UNCHANGED env
    /\ IF ~metadata.exists THEN
          /\ resp' = HttpErrorDetail(503, "Parquet no disponible")
          /\ queries' = <<>>
          /\ locals' = NoRecord
       ELSE IF ~metadata.readable THEN
          \* the DESCRIBE raises; except Exception turns it into a 500
          /\ resp' = HttpErrorDetail(500, "str(e)")
          /\ queries' = <<DescribeQuery("metadata", metadata)>>
          /\ locals' = NoRecord
       ELSE
          LET available_cols == metadata.cols
              describe == DescribeQuery("metadata", metadata)
              uid_col == DetectStudyUidColumn(available_cols)
          IN  IF uid_col \in {None, <<>>} THEN
                 /\ resp' = HttpErrorDetail(500, NoUidColumnDetail)
                 /\ queries' = <<describe>>
                 /\ locals' = [uid_col |-> uid_col]
              ELSE
                 \E m \in MapRealToAnon(study_id), lower_map \in LowerMaps(available_cols) :
                    LET anon_uid == m.anon_uid
                        target_uid == OrElse(anon_uid, study_id)
                        anon_filter_col ==
                            IF anon_uid \in {None, <<>>} THEN None
                            ELSE FindCol(lower_map, AnonFilterCandidates)
                        filter_col == OrElse(anon_filter_col, uid_col)
                        select_cols == FilterSeq(PreferredCols, available_cols)
                        shown == IF select_cols = <<>> THEN available_cols
                                 ELSE Range(select_cols)
                        idents == [i \in 1..Len(select_cols) |-> Quoted(select_cols[i])]
                                  \o <<Quoted(filter_col)>>
                        bound == BindColumn(ParseQuotedIdent(Quoted(filter_col)), available_cols)
                        sql == StudySql(select_cols)
                    IN  /\ queries' = <<describe>> \o m.queries
                                      \o <<Query("metadata", sql, idents,
                                                 <<metadata.path, target_uid>>)>>
                        /\ locals' = [uid_col |-> uid_col, anon_uid |-> anon_uid,
                                      real_col |-> m.real_col, anon_col |-> m.anon_col,
                                      target_uid |-> target_uid, filter_col |-> filter_col]
                        /\ IF bound = None THEN resp' = HttpErrorDetail(500, "str(e)")
                           ELSE \E rows \in LimitAnyOrder(
                                        RowsWhereEquals(metadata, bound, target_uid),
                                        StudyRowLimit) :
                                   resp' = Ok([studyId |-> study_id,
                                               mappedStudyId |->
                                                  IF target_uid # study_id THEN target_uid
                                                  ELSE None,
                                               count |-> Len(rows),
                                               items |-> [i \in 1..Len(rows) |->
                                                            Project(rows[i], shown)]])

\* GET /studies/{study_id}/dicoms
GetStudyDicoms(study_id) == Idle /\ StudyDicoms(study_id)

\* The same client sends the call it just made once more.
RepeatStudyDicoms == op = "get_study_dicoms" /\ StudyDicoms(req.study_id)

DistinctSql == "SELECT DISTINCT {...} FROM read_parquet(?) WHERE {} IS NOT NULL LIMIT ?"

\* GET /dicom/studies
ListDicomStudies(limit) ==
    /\ Idle
    /\ op' = "list_dicom_studies"
    /\ req' = [limit |-> limit]
    /\ UNCHANGED env
    /\ IF limit < 1 \/ limit > 100 THEN
          \* Query(ge=1, le=100): rejected before the handler runs
          /\ resp' = HttpError(422)
          /\ queries' = <<>>
          /\ locals' = NoRecord
       ELSE IF ~metadata.exists THEN
          /\ resp' = HttpErrorDetail(503, "Parquet no disponible")
          /\ queries' = <<>>
          /\ locals' = NoRecord
       ELSE IF ~metadata.readable THEN
          /\ resp' = HttpErrorDetail(500, "str(e)")
          /\ queries' = <<DescribeQuery("metadata", metadata)>>
          /\ locals' = NoRecord
       ELSE
          LET available_cols == metadata.cols
              describe == DescribeQuery("metadata", metadata)
              uid_col == DetectStudyUidColumn(available_cols)
              file_cols == FilterSeq(FileColCandidates, available_cols)
          IN  IF uid_col \in {None, <<>>} THEN
                 /\ resp' = HttpErrorDetail(500, NoUidColumnDetail)
                 /\ queries' = <<describe>>
                 /\ locals' = [uid_col |-> uid_col]
              ELSE
                 LET selected == IF file_cols # <<>> THEN <<uid_col, file_cols[1]>>
                                 ELSE <<uid_col>>
                     idents == [i \in 1..Len(selected) |-> Quoted(selected[i])]
                               \o <<Quoted(uid_col)>>
                     distinct == {Project(r, Range(selected)) :
                                    r \in {x \in metadata.rows : x[uid_col] # None}}
                 IN  /\ queries' = <<describe,
                                     Query("metadata", DistinctSql, idents,
                                           <<metadata.path, limit>>)>>
                     /\ locals' = [uid_col |-> uid_col]
                     /\ \E rows \in LimitAnyOrder(distinct, limit) :
                           resp' = Ok([uidColumn |-> uid_col, items |-> rows])

(***************************************************************************)
(* Specification of the Parquet and file endpoints                         *)
(***************************************************************************)
InitDicom ==
    /\ reportCols = BaseReportSchema
    /\ reportRows = {}
    /\ IdleInit
    /\ \/ /\ metadata \in ParquetsOver(DefaultParquetPath, FileSchemas)
          /\ mapping = metadata
          /\ files \in SUBSET DicomFiles
       \/ /\ metadata \in ParquetsOver(DefaultParquetPath, StudySchemas)
          /\ mapping = metadata
          /\ files = {}
       \/ /\ metadata \in MappedMetadata
          /\ mapping \in ParquetsOver(OwnMappingPath, MappingSchemas)
          /\ files = {}

NextDicom ==
    \/ \E sop \in SopInputs : GetDicomBySop(sop)
    \/ \E id \in StudyIdInputs : GetStudyDicoms(id)
    \/ RepeatStudyDicoms
    \/ \E limit \in LimitInputs : ListDicomStudies(limit)
    \/ Respond

SpecDicom == InitDicom /\ [][NextDicom]_vars

(***************************************************************************)
(* Specification of the study-identifier detector alone                    *)
(***************************************************************************)
\* The column names the detector is tried on.
DetectColumns ==
    {s_StudyInstanceUID, s_studyID, s_study_id, s_anon_study_uid, s_StudyUID,
     s_studyid, s_SOPInstanceUID, s_anon}

\* _detect_study_uid_column applied to a set of column names.
Detect(available_cols) ==
    /\ Idle
    /\ op' = "detect"
    /\ req' = [available_cols |-> available_cols]
    /\ locals' = [uid_col |-> DetectStudyUidColumn(available_cols)]
    /\ resp' = NoRecord
    /\ queries' = <<>>
    /\ UNCHANGED env

InitDetect ==
    /\ reportCols = BaseReportSchema
    /\ reportRows = {}
    /\ files = {}
    /\ metadata = NoParquet
    /\ mapping = NoParquet
    /\ IdleInit

NextDetect ==
    \/ \E A \in SUBSET DetectColumns : Detect(A)
    \/ Respond

SpecDetect == InitDetect /\ [][NextDetect]_vars

(***************************************************************************)
(* Specification of the whole service                                      *)
(***************************************************************************)
\* The sources of both kinds in every schema of the model, with at most
\* MaxServiceRows rows in a Parquet source.
Init ==
    /\ IdleInit
    /\ \/ /\ \E t \in SchemaReportTables : reportCols = t[1] /\ reportRows = t[2]
          /\ files = {}
          /\ metadata = NoParquet
          /\ mapping = NoParquet
       \/ /\ reportCols = BaseReportSchema
          /\ reportRows = {}
          /\ \/ /\ metadata \in ParquetsUpTo(DefaultParquetPath, FileSchemas, MaxServiceRows)
                /\ mapping = metadata
                /\ files \in SUBSET DicomFiles
             \/ /\ metadata \in ParquetsUpTo(DefaultParquetPath, StudySchemas, MaxServiceRows)
                /\ mapping = metadata
                /\ files = {}
             \/ /\ metadata \in MappedMetadata
                /\ mapping \in ParquetsUpTo(OwnMappingPath, MappingSchemas, MaxServiceRows)
                /\ files = {}

Next ==
    \/ GetFindings
    \/ \E h \in HallazgoInputs, v \in ValueInputs, p \in PageInputs, k \in PageSizeInputs :
          GetStudies(h, v, p, k)
    \/ \E h \in HallazgoInputs, v \in ValueInputs : GetStudiesCount(h, v)
    \/ \E sop \in SopInputs : GetDicomBySop(sop)
    \/ \E id \in StudyIdInputs : GetStudyDicoms(id)
    \/ RepeatStudyDicoms
    \/ \E limit \in LimitInputs : ListDicomStudies(limit)
    \/ Respond

Spec == Init /\ [][Next]_vars

(***************************************************************************)
(* Properties of the report endpoints                                      *)
(***************************************************************************)
\* The allowlist as section 4.3 defines it: schema names minus the metadata set.
Allowlist == Range(reportCols) \ meta_cols

IsListOrCount == op \in {"get_studies", "get_studies_count"}

ReqPagingValid ==
    op = "get_studies" =>
        (req.page >= 1 /\ req.page_size >= 1 /\ req.page_size <= MaxPageSize)

Unauthorized == req.hallazgo # None /\ req.hallazgo \notin Allowlist

OnlySchemaFetch == \A i \in 1..Len(queries) : queries[i] = TableInfoQuery

\* C1 as stated: every listStudies or countStudies call that names a column
\* outside the allowlist ends with InvalidColumn (400) and runs no listing
\* or count query, whatever the filter value, an absent one included.
C1_AnyValueRejected ==
    (IsListOrCount /\ ReqPagingValid /\ Unauthorized)
        => (resp.status = 400 /\ OnlySchemaFetch)

\* C1 as amended: a column outside the allowlist sent together with a filter
\* value is rejected with 400 after the schema fetch alone; sent without a
\* value it is ignored, unchecked, and the unfiltered query runs.
C1_UnauthorizedColumnRejected ==
    (IsListOrCount /\ ReqPagingValid /\ Unauthorized) =>
        IF req.value # None
        THEN resp.status = 400 /\ queries = <<TableInfoQuery>>
        ELSE /\ resp.status = 200
             /\ Len(queries) = 1
             /\ queries[1].sql \in {ListSqlUnfiltered, CountSqlUnfiltered}
             /\ queries[1].idents = <<>>

C1_Witness ==
    /\ op = "get_studies"
    /\ req.hallazgo = s_studyID
    /\ req.value = v_T
    /\ resp.status = 400
    /\ reportRows # {}

\* The filter a request carries: <<column, value>>, <<None, None>> without one.
ReqFilter ==
    IF req.hallazgo # None /\ req.value # None
    THEN <<req.hallazgo, req.value>> ELSE <<None, None>>

\* The studyIDs that have a row satisfying the filter f.
MatchingStudies(f) ==
    {r[s_studyID] : r \in {x \in reportRows :
        /\ x[s_studyID] # None
        /\ f[1] # None => x[f[1]] = f[2]}}

\* Pages first..last of the listing, page size k, one after the other.
RECURSIVE ConcatPages(_, _, _, _)
ConcatPages(f, k, first, last) ==
    IF first > last THEN <<>>
    ELSE ListQueryRows(f[1], f[2], k, PageOffset(first, k))
         \o ConcatPages(f, k, first + 1, last)

\* C2: countStudies(filter) is the number of entries of the whole listing
\* under the same filter, and both are the number of distinct non-null
\* studyIDs with a row satisfying the filter.
C2_CountMatchesListing ==
    (op = "get_studies_count" /\ resp.status = 200) =>
        \A k \in 1..2 :
            LET all == ConcatPages(ReqFilter, k, 1, Cardinality(reportRows) + 1)
            IN  /\ resp.body.count = Len(all)
                /\ resp.body.count = Cardinality(MatchingStudies(ReqFilter))
                /\ {all[i].studyId : i \in 1..Len(all)} = MatchingStudies(ReqFilter)

C2_Witness ==
    /\ op = "get_studies_count"
    /\ req.hallazgo = s_Edema
    /\ req.value = v_T
    /\ resp.status = 200
    /\ resp.body.count = 1
    /\ Cardinality(reportRows) = 3
    /\ \E r \in reportRows : r[s_studyID] = None /\ r[s_Edema] = v_T
    /\ \E r \in reportRows : r[s_studyID] # None /\ r[s_Edema] = None

\* The full listing as section 4.7 defines it: one entry per distinct
\* non-null studyID with a row satisfying f, ascending, each with the least
\* non-null text of those rows.
ExpectedListing(f) ==
    LET ids == MatchingStudies(f)
        order == CHOOSE s \in Arrangements(ids, Cardinality(ids)) :
                    \A i, j \in 1..Len(s) : i < j => StrLess(s[i], s[j])
        texts(id) == {r[s_clean_report_text] : r \in {x \in reportRows :
                        /\ x[s_studyID] = id
                        /\ f[1] # None => x[f[1]] = f[2]}} \ {None}
    IN  [i \in 1..Len(order) |->
            [studyId |-> order[i],
             cleanReportText |->
                IF texts(order[i]) = {} THEN None
                ELSE CHOOSE t \in texts(order[i]) :
                        \A u \in texts(order[i]) : u = t \/ StrLess(t, u)]]

\* The elements at offsets (p-1)*k .. p*k-1 of full, as many as there are.
ExpectedPage(full, p, k) ==
    LET first == (p - 1) * k
        n == IF Len(full) <= first THEN 0 ELSE Min(k, Len(full) - first)
    IN  [i \in 1..n |-> full[first + i]]

FilterAbsentOrValid ==
    (req.hallazgo # None /\ req.value # None) => req.hallazgo \in Allowlist

\* C3 as stated: for every page p >= 1 and page size k >= 1 the unfiltered
\* listStudies returns the elements at offsets (p-1)*k .. p*k-1 of the full
\* ordered, deduplicated listing, never an error.
C3_AnyPageSizeServed ==
    (op = "get_studies" /\ req.hallazgo = None /\ req.value = None
        /\ req.page >= 1 /\ req.page_size >= 1)
    => /\ resp.status = 200
       /\ resp.body = ExpectedPage(ExpectedListing(ReqFilter), req.page, req.page_size)

\* C3 as amended: for every page p >= 1 and page size 1 <= k <= 100 the
\* listing returns the elements at offsets (p-1)*k .. p*k-1 of the full
\* ordered, deduplicated listing (an empty list beyond the last page); a
\* page size above 100 is rejected (422) and no query runs.
C3_PageIsSliceOfListing ==
    (op = "get_studies" /\ req.page >= 1 /\ req.page_size >= 1 /\ FilterAbsentOrValid) =>
        IF req.page_size <= 100
        THEN /\ resp.status = 200
             /\ resp.body = ExpectedPage(ExpectedListing(ReqFilter), req.page, req.page_size)
        ELSE resp.status = 422 /\ queries = <<>>

C3_Witness ==
    /\ op = "get_studies"
    /\ req.page = 2
    /\ req.page_size = 1
    /\ req.hallazgo = None
    /\ resp.status = 200
    /\ Len(resp.body) = 1
    /\ resp.body[1].studyId = v_2
    /\ resp.body[1].cleanReportText = v_a
    /\ \E r \in reportRows : r[s_studyID] = v_2 /\ r[s_clean_report_text] = v_b

\* C9: GET /findings returns exactly the schema names outside the metadata
\* set, each once, in code-point order, whatever the column order; and the
\* allowlist of the listing and count endpoints is that same set.
C9_FindingsAreSchemaMinusMetadata ==
    op = "get_findings" =>
        /\ resp.status = 200
        /\ Range(resp.body) = Range(reportCols) \ meta_cols
        /\ \A i, j \in 1..Len(resp.body) : i < j => StrLess(resp.body[i], resp.body[j])
        /\ resp.body = SortStrings(Range(reportCols) \ meta_cols)
        /\ ValidCols = Range(resp.body)

C9_Witness ==
    /\ op = "get_findings"
    /\ reportCols = <<s_Edema, s_studyID, s_odd, s_clean_report_text>>
    /\ resp.body = <<s_Edema, s_odd>>

(***************************************************************************)
(* Properties of the Parquet and file endpoints                            *)
(***************************************************************************)
\* The numbers of the roots, in the order /app/data, /data_in, /data, that
\* hold the file {sop}.dcm.
RootsHolding(sop) ==
    {i \in 1..3 : DicomRoots[i] \o <<"/">> \o sop \o <<".","d","c","m">> \in files}

\* The first of file_path, dicom_path, path in the metadata schema, else None.
FirstPathColumn ==
    IF s_file_path \in metadata.cols THEN s_file_path
    ELSE IF s_dicom_path \in metadata.cols THEN s_dicom_path
    ELSE IF s_path \in metadata.cols THEN s_path
    ELSE None

\* The metadata rows whose SOPInstanceUID is sop.
RowsOfSop(sop) ==
    IF metadata.exists /\ metadata.readable /\ s_SOPInstanceUID \in metadata.cols
    THEN {r \in metadata.rows : r[s_SOPInstanceUID] = sop}
    ELSE {}

\* C4: resolveInstanceFile probes /app/data, /data_in, /data in order and
\* returns the first hit without touching the metadata source; only with no
\* hit it takes the first of file_path, dicom_path, path in the schema,
\* looks up the row of the instance and returns its path if that exists on
\* disk; everything else is NotFound (404), never a 5xx.
C4_ResolutionOrder ==
    op = "get_dicom_by_sop" =>
        LET sop == req.sop_instance_uid
            hits == RootsHolding(sop)
            first == CHOOSE i \in hits : \A j \in hits : i <= j
            rows == RowsOfSop(sop)
        IN  /\ resp.status \in {200, 404}
            /\ hits # {} =>
                  /\ resp.status = 200
                  /\ resp.body.path = DicomRoots[first] \o <<"/">> \o sop \o <<".","d","c","m">>
                  /\ queries = <<>>
            /\ (hits = {} /\ resp.status = 200) =>
                  /\ FirstPathColumn # None
                  /\ \E r \in rows : r[FirstPathColumn] = resp.body.path
                  /\ resp.body.path \in files
                  /\ Len(queries) = 2
                  /\ queries[1].sql = DescribeSql
            /\ (hits = {} /\ resp.status = 404) =>
                  \/ FirstPathColumn = None
                  \/ rows = {}
                  \/ \E r \in rows : r[FirstPathColumn] \notin files
            /\ (hits = {} /\ ~metadata.exists) => queries = <<>>

C4_Witness ==
    /\ op = "get_dicom_by_sop"
    /\ RootsHolding(req.sop_instance_uid) = {2, 3}
    /\ metadata.cols = {s_SOPInstanceUID, s_file_path}
    /\ \E r \in RowsOfSop(req.sop_instance_uid) : r[s_file_path] \in files
    /\ resp.status = 200
    /\ resp.body.path = DicomRoots[2] \o <<"/">> \o req.sop_instance_uid \o <<".","d","c","m">>
    /\ queries = <<>>

C4_WitnessParquet ==
    /\ op = "get_dicom_by_sop"
    /\ RootsHolding(req.sop_instance_uid) = {}
    /\ metadata.cols = {s_SOPInstanceUID, s_dicom_path, s_path}
    /\ resp.status = 200
    /\ resp.body.path = v_P1

\* The columns of the mapping source that match, without regard to case,
\* the first name of candidates that matches any; {} when none does or the
\* source cannot be described.
RECURSIVE MatchingColumns(_)
MatchingColumns(candidates) ==
    IF candidates = <<>> \/ ~mapping.exists \/ ~mapping.readable THEN {}
    ELSE LET same == {c \in mapping.cols : Lower(c) = Lower(Head(candidates))}
         IN  IF same # {} THEN same ELSE MatchingColumns(Tail(candidates))

RealCandidates ==
    <<s_PHI, s_StudyInstanceUID, s_studyID, s_original_study_uid, s_real_study_uid>>

AnonCandidates ==
    <<s_ANON, s_anon_study_uid, s_AnonymizedStudyInstanceUID, s_anonStudyInstanceUID,
      s_anon_StudyInstanceUID>>

\* C5: mapRealToAnon never raises; it takes as real and as anon column the
\* first candidate that matches a source column without regard to case;
\* with both found and a row whose real column equals the identifier it
\* returns the anon value of such a row, and in every other case no
\* mapping, upon which resolveStudyMetadata queries with the caller's
\* identifier and reports no mappedStudyId.
C5_MappingBestEffort ==
    (op = "get_study_dicoms" /\ "anon_uid" \in DOMAIN locals) =>
        LET reals == MatchingColumns(RealCandidates)
            anons == MatchingColumns(AnonCandidates)
            id == req.study_id
        IN  /\ resp.status = 200
            /\ IF reals = {} \/ anons = {}
               THEN locals.anon_uid = None
               ELSE /\ locals.real_col \in reals
                    /\ locals.anon_col \in anons
                    /\ IF \E r \in mapping.rows : r[locals.real_col] = id
                       THEN \E r \in mapping.rows :
                                /\ r[locals.real_col] = id
                                /\ r[locals.anon_col] = locals.anon_uid
                       ELSE locals.anon_uid = None
            /\ locals.anon_uid = None =>
                  /\ queries[Len(queries)].params = <<metadata.path, id>>
                  /\ resp.body.mappedStudyId = None

C5_Witness ==
    /\ op = "get_study_dicoms"
    /\ mapping.cols = {s_phi, s_anon}
    /\ mapping.rows = {(s_phi :> v_R1) @@ (s_anon :> v_A1)}
    /\ req.study_id = v_R1
    /\ locals.anon_uid = v_A1
    /\ resp.status = 200
    /\ resp.body.mappedStudyId = v_A1

C5_WitnessNoMapping ==
    /\ op = "get_study_dicoms"
    /\ mapping.cols = {s_PHI, s_ANON}
    /\ mapping.rows = {(s_PHI :> v_R1) @@ (s_ANON :> v_A1)}
    /\ req.study_id = v_R2
    /\ locals.anon_uid = None
    /\ resp.status = 200

\* C6: detect(A) is the first of StudyInstanceUID, studyID, study_id,
\* anon_study_uid, StudyUID that is an element of A, and none exactly when
\* none of them is; a column differing from a candidate in letter case
\* only is never returned.
C6_DetectFirstCandidate ==
    op = "detect" =>
        LET A == req.available_cols
            L == <<s_StudyInstanceUID, s_studyID, s_study_id, s_anon_study_uid, s_StudyUID>>
            found == locals.uid_col
        IN  /\ \/ \E i \in 1..5 : /\ L[i] \in A
                                  /\ found = L[i]
                                  /\ \A j \in 1..(i - 1) : L[j] \notin A
               \/ /\ \A i \in 1..5 : L[i] \notin A
                  /\ found = None
            /\ found # None => found \in A
            /\ A = {s_studyID, s_SOPInstanceUID} => found = s_studyID
            /\ A = {} => found = None

C6_Witness ==
    /\ op = "detect"
    /\ req.available_cols = {s_studyid, s_StudyUID, s_anon_study_uid, s_SOPInstanceUID}
    /\ locals.uid_col = s_anon_study_uid

MetadataOpen == metadata.exists /\ metadata.readable

HasStudyUidColumn ==
    \E c \in {s_StudyInstanceUID, s_studyID, s_study_id, s_anon_study_uid, s_StudyUID} :
        c \in metadata.cols

\* C7: resolveStudyMetadata and listDistinctStudyIds answer 503
\* (SourceUnavailable) when the metadata source is missing or cannot be
\* opened, a distinct SchemaMismatch error when it opens without a
\* study-identifier column, and a successful empty result when it has the
\* column but no row of the requested study.
C7_FailureClasses ==
    op \in {"get_study_dicoms", "list_dicom_studies"} =>
        /\ ~MetadataOpen => resp.status = 503
        /\ (MetadataOpen /\ ~HasStudyUidColumn) =>
              /\ resp.status \notin {200, 404, 503}
              /\ resp.detail = NoUidColumnDetail
        /\ (MetadataOpen /\ HasStudyUidColumn) => resp.status = 200
        /\ (MetadataOpen /\ HasStudyUidColumn /\ op = "get_study_dicoms"
              /\ \A r \in metadata.rows, c \in metadata.cols : r[c] # locals.target_uid) =>
              (resp.body.count = 0 /\ resp.body.items = <<>>)

\* What C7 says apart from the unreadable source, which the code does honour.
C7_ExceptUnreadable == (metadata.exists => metadata.readable) => C7_FailureClasses

NoCaseCollision(cols) == \A c, d \in cols : Lower(c) = Lower(d) => c = d

HardCodedNames ==
    Range(StudyUidCandidates) \cup Range(RealPreferred) \cup Range(RealFallback)
    \cup Range(AnonPreferred) \cup Range(AnonFallback) \cup Range(AnonFilterCandidates)
    \cup Range(FileColCandidates) \cup Range(PreferredCols)

\* The fixed texts of the statements, with {} where a name is interpolated.
StatementTexts ==
    {TableInfoQuery.sql, ListSqlFiltered, ListSqlUnfiltered, CountSqlFiltered,
     CountSqlUnfiltered, DescribeSql, MapSql, PathSql, StudySql(<<>>),
     StudySql(<<s_Modality>>), DistinctSql}

\* The column names of the source a query reads.
SchemaOf(q) ==
    IF q.source = "metadata" THEN metadata.cols
    ELSE IF q.source = "mapping" THEN mapping.cols
    ELSE Range(reportCols)

\* The values the caller sent with the request.
CallerValues ==
    IF op \in {"get_studies", "get_studies_count"} THEN {req.hallazgo, req.value}
    ELSE IF op = "get_dicom_by_sop" THEN {req.sop_instance_uid}
    ELSE IF op = "get_study_dicoms" THEN {req.study_id}
    ELSE {}

\* The parameters the last query of the request is bound to.
LastParams == queries[Len(queries)].params

\* C10: every column name interpolated into a query is either the caller's
\* name, found in the allowlist and quoted with its quotes doubled, or a
\* name of the described schema that equals a hard-coded candidate up to
\* letter case; the text is one of the fixed statements, and values and
\* file paths reach the query as bound parameters only.
C10_IdentifiersGuarded ==
    /\ \A i \in 1..Len(queries) :
          LET q == queries[i]
          IN  /\ q.sql \in StatementTexts
              /\ \A j \in 1..Len(q.idents) :
                    IF q.source = "reports"
                    THEN /\ req.hallazgo \in Allowlist
                         /\ ParseQuotedIdent(q.idents[j]) = req.hallazgo
                    ELSE \E c \in SchemaOf(q) :
                            /\ q.idents[j] = DQ \o c \o DQ
                            /\ \E k \in HardCodedNames : Lower(k) = Lower(c)
                            /\ c \notin CallerValues
    /\ (op = "get_studies" /\ resp.status = 200) =>
          LastParams = (IF req.hallazgo # None /\ req.value # None THEN <<req.value>> ELSE <<>>)
                       \o <<req.page_size, (req.page - 1) * req.page_size>>
    /\ (op = "get_studies_count" /\ resp.status = 200) =>
          LastParams = (IF req.hallazgo # None /\ req.value # None THEN <<req.value>> ELSE <<>>)
    /\ (op = "get_dicom_by_sop" /\ Len(queries) = 2) =>
          LastParams = <<metadata.path, req.sop_instance_uid>>
    /\ (op = "get_study_dicoms" /\ resp.status = 200) =>
          LastParams = <<metadata.path, locals.target_uid>>
    /\ (op = "list_dicom_studies" /\ resp.status = 200) =>
          LastParams = <<metadata.path, req.limit>>

C10_Witness ==
    /\ op = "get_studies"
    /\ req.hallazgo = s_odd
    /\ resp.status = 200
    /\ Len(queries) = 2
    /\ queries[2].idents = <<(<<"\"","a","\"","\"","b","\"">>)>>
    /\ queries[2].params = <<v_T, req.page_size, (req.page - 1) * req.page_size>>

C10_WitnessSchemaName ==
    /\ op = "get_study_dicoms"
    /\ resp.status = 200
    /\ locals.filter_col = s_anon
    /\ queries[Len(queries)].idents[Len(queries[Len(queries)].idents)] = DQ \o s_anon \o DQ

=============================================================================
